---- MODULE Spec2Model ----
(***************************************************************************)
(* Model of vocab-tui (src/src/main.rs): the App controller running on the *)
(* UI thread and the scoring tasks it spawns on the tokio runtime.  The    *)
(* two RwLocks (App::state and App::shared_state) are modelled with their  *)
(* holders, so that the interleavings of the handlers' lock acquisitions   *)
(* with the spawned completion are the ones the code admits.               *)
(***************************************************************************)
EXTENDS Integers, Sequences, FiniteSets, TLC

\* ---- bounds of the model ------------------------------------------------
MaxTasks == 2      \* scoring tasks that can be in flight together
MaxLen == 2        \* longest input buffer typed

\* ---- input domains ------------------------------------------------------
Chars == {"a"}                            \* characters typed by the user
Words == {"apple", "banana"}              \* wordlist.txt, drawn by generate()
\* (score in hundredths, explanation) pairs the backend may return
Results == {<<73, "close enough">>, <<80, "x">>}

TaskIds == 1..MaxTasks
UI == 0            \* lock holder id of the UI thread
Free == -1         \* lock held by nobody

\* key events read by the main loop (event::read, main.rs:252-268); the
\* three quit keys end the process and are left out
Codes == {"Char", "Delete", "Backspace", "Enter", "Tab", "CtrlR"}
Keys == {[code |-> "Char", c |-> ch] : ch \in Chars}
        \cup {[code |-> k, c |-> ""] : k \in Codes \ {"Char"}}
\* no key read yet
NoKey == [code |-> "None", c |-> ""]

VARIABLES
    state,         \* App::state : State behind RwLock
    input,         \* App::input
    display,       \* App::display
    shared_state,  \* App::shared_state : SlowState behind RwLock
    stateLock,     \* holder of the RwLock around state
    sharedLock,    \* holder of the RwLock around shared_state
    uiPc,          \* position of the UI thread in main's loop and handlers
    key,           \* the key event main's loop read last
    tasks,         \* spawned futures that have not terminated, by task id;
                   \* the field stale is history: on_next or on_retry has
                   \* returned since the task was spawned
    latest         \* id of the most recently spawned task (0: none yet)

vars == <<state, input, display, shared_state, stateLock,
          sharedLock, uiPc, key, tasks, latest>>

\* SlowState { explanation: String::new(), score: 0.0 }
SlowStateDefault == [score |-> 0, explanation |-> ""]

\* State::is_input
is_input(s) == s = "Input"

\* OllamaDriver::generate: uniform draw from the word list
generate == Words

\* App::new, and main up to the loop
Init ==
    /\ state = "Input"
    /\ input = <<>>
    /\ display \in generate
    /\ shared_state = SlowStateDefault
    /\ stateLock = Free
    /\ sharedLock = Free
    /\ uiPc = "draw"
    /\ key = NoKey
    /\ tasks = [t \in {} |-> 0]
    /\ latest = 0

\* ---- main loop: draw, poll, dispatch -----------------------------------
\* App::ui, first half: the scoped read guard on state picks the style
ui_read_state ==
    /\ uiPc = "draw"
    /\ stateLock = Free
    /\ uiPc' = "draw_shared"
    /\ UNCHANGED <<state, input, display, shared_state, 
                   stateLock, sharedLock, key, tasks, latest>>

\* App::ui, second half: the read guard on shared_state.  What ui draws,
\* the blinking cursor of flow_marker included, is not part of the model.
ui_read_shared ==
    /\ uiPc = "draw_shared"
    /\ sharedLock = Free
    /\ uiPc' = "poll"
    /\ UNCHANGED <<state, input, display, shared_state, stateLock,
                   sharedLock, key, tasks, latest>>

\* event::poll timed out: next iteration of the loop
poll_timeout ==
    /\ uiPc = "poll"
    /\ uiPc' = "draw"
    /\ UNCHANGED <<state, input, display, shared_state, 
                   stateLock, sharedLock, key, tasks, latest>>

\* event::read returns a key.  The model's bounds live here: a character
\* is typed only while the buffer has room, Enter is pressed only while a
\* task id is free.
poll_key(k) ==
    /\ uiPc = "poll"
    /\ (k.code = "Char" /\ is_input(state)) => Len(input) < MaxLen
    /\ k.code = "Enter" => Cardinality(DOMAIN tasks) < MaxTasks
    /\ key' = k
    /\ uiPc' = "handle"
    /\ UNCHANGED <<state, input, display, shared_state, 
                   stateLock, sharedLock, tasks, latest>>

\* ---- on_key / Backspace / Delete ---------------------------------------
\* on_key without its state guard: the character is pushed in any state
on_key_unguarded(c) ==
    /\ uiPc = "handle"
    /\ key = [code |-> "Char", c |-> c]
    /\ stateLock = Free
    /\ input' = Append(input, c)
    /\ uiPc' = "draw"
    /\ UNCHANGED <<state, display, shared_state, stateLock,
                   sharedLock, key, tasks, latest>>

\* App::on_key: read-lock state, return unless Input, push c
on_key(c) ==
    /\ uiPc = "handle"
    /\ key = [code |-> "Char", c |-> c]
    /\ stateLock = Free
    /\ input' = IF is_input(state) THEN Append(input, c) ELSE input
    /\ uiPc' = "draw"
    /\ UNCHANGED <<state, display, shared_state, stateLock,
                   sharedLock, key, tasks, latest>>

\* a pop that empties the string
pop_all(s) == <<>>

\* String::pop: drop the last char, nothing on the empty string
pop(s) == IF Len(s) = 0 THEN s ELSE SubSeq(s, 1, Len(s) - 1)

\* main, KeyCode::Backspace
on_backspace ==
    /\ uiPc = "handle"
    /\ key.code = "Backspace"
    /\ stateLock = Free
    /\ input' = IF is_input(state) THEN pop(input) ELSE input
    /\ uiPc' = "draw"
    /\ UNCHANGED <<state, display, shared_state, stateLock,
                   sharedLock, key, tasks, latest>>

\* main, KeyCode::Delete: app.input.clear(), whatever the state
on_delete ==
    /\ uiPc = "handle"
    /\ key.code = "Delete"
    /\ input' = <<>>
    /\ uiPc' = "draw"
    /\ UNCHANGED <<state, display, shared_state, stateLock,
                   sharedLock, key, tasks, latest>>

\* history: every task in flight when a reset returns is stale from then on
Superseded == [t \in DOMAIN tasks |-> [tasks[t] EXCEPT !.stale = TRUE]]

\* ---- on_next ------------------------------------------------------------
\* on_next, lines 73-74: clear the buffer, draw a new word
on_next_start ==
    /\ uiPc = "handle"
    /\ key.code = "Tab"
    /\ input' = <<>>
    /\ display' \in generate
    /\ uiPc' = "next_lock_shared"
    /\ UNCHANGED <<state, shared_state, stateLock, sharedLock,
                   key, tasks, latest>>

\* on_next, lines 75-78: take the write guard on shared_state
on_next_lock_shared ==
    /\ uiPc = "next_lock_shared"
    /\ sharedLock = Free
    /\ sharedLock' = UI
    /\ uiPc' = "next_clear"
    /\ UNCHANGED <<state, input, display, shared_state, 
                   stateLock, key, tasks, latest>>

\* on_next without drop(shared_state): the guard lives to the end of the
\* function, across the write of state
on_next_clear_keep_guard ==
    /\ uiPc = "next_clear"
    /\ shared_state' = SlowStateDefault
    /\ uiPc' = "next_write_state"
    /\ UNCHANGED <<state, input, display, stateLock, sharedLock,
                   key, tasks, latest>>

\* on_next, lines 79-81: clear explanation and score, drop the guard
on_next_clear ==
    /\ uiPc = "next_clear"
    /\ shared_state' = SlowStateDefault
    /\ sharedLock' = Free
    /\ uiPc' = "next_write_state"
    /\ UNCHANGED <<state, input, display, stateLock, key,
                   tasks, latest>>

\* on_next, line 82: write State::Input under a temporary write guard
on_next_write_state ==
    /\ uiPc = "next_write_state"
    /\ stateLock = Free
    /\ state' = "Input"
    /\ tasks' = Superseded
    /\ uiPc' = "draw"
    /\ UNCHANGED <<input, display, shared_state, stateLock,
                   sharedLock, key, latest>>

\* ---- on_retry -----------------------------------------------------------
\* on_retry drawing a new word as on_next does
on_retry_start_regenerate ==
    /\ uiPc = "handle"
    /\ key.code = "CtrlR"
    /\ input' = <<>>
    /\ display' \in generate
    /\ uiPc' = "retry_lock_shared"
    /\ UNCHANGED <<state, shared_state, stateLock, sharedLock,
                   key, tasks, latest>>

\* on_retry, line 119: clear the buffer; the word stays
on_retry_start ==
    /\ uiPc = "handle"
    /\ key.code = "CtrlR"
    /\ input' = <<>>
    /\ uiPc' = "retry_lock_shared"
    /\ UNCHANGED <<state, display, shared_state, stateLock,
                   sharedLock, key, tasks, latest>>

\* on_retry, lines 120-123: take the write guard on shared_state
on_retry_lock_shared ==
    /\ uiPc = "retry_lock_shared"
    /\ sharedLock = Free
    /\ sharedLock' = UI
    /\ uiPc' = "retry_clear"
    /\ UNCHANGED <<state, input, display, shared_state, 
                   stateLock, key, tasks, latest>>

\* on_retry, lines 124-126: clear explanation and score, drop the guard
on_retry_clear ==
    /\ uiPc = "retry_clear"
    /\ shared_state' = SlowStateDefault
    /\ sharedLock' = Free
    /\ uiPc' = "retry_write_state"
    /\ UNCHANGED <<state, input, display, stateLock, key,
                   tasks, latest>>

\* on_retry, line 127: write State::Input under a temporary write guard
on_retry_write_state ==
    /\ uiPc = "retry_write_state"
    /\ stateLock = Free
    /\ state' = "Input"
    /\ tasks' = Superseded
    /\ uiPc' = "draw"
    /\ UNCHANGED <<input, display, shared_state, stateLock,
                   sharedLock, key, latest>>

\* ---- on_review and the spawned completion ------------------------------
\* smallest task id not in use
FreshId == CHOOSE t \in TaskIds \ DOMAIN tasks :
               \A u \in TaskIds \ DOMAIN tasks : t <= u

\* the future handed to rt.spawn, awaiting process.  The clones of input
\* and display it captures are moved into process, whose answer is drawn
\* from Results whatever they are, so the record does not keep them.
NewTask == [pc |-> "await", result |-> <<0, "">>, stale |-> FALSE]

\* on_review without its guard: every Enter goes on to spawn
on_review_check_unguarded ==
    /\ uiPc = "handle"
    /\ key.code = "Enter"
    /\ stateLock = Free
    /\ uiPc' = "review_write"
    /\ UNCHANGED <<state, input, display, shared_state, 
                   stateLock, sharedLock, key, tasks, latest>>

\* on_review, lines 86-88: the guard; a state other than Input returns
on_review_check ==
    /\ uiPc = "handle"
    /\ key.code = "Enter"
    /\ stateLock = Free
    /\ uiPc' = IF is_input(state) THEN "review_write" ELSE "draw"
    /\ UNCHANGED <<state, input, display, shared_state, 
                   stateLock, sharedLock, key, tasks, latest>>

\* on_review, lines 90-108: write Processing, spawn the task
on_review_spawn ==
    /\ uiPc = "review_write"
    /\ stateLock = Free
    /\ state' = "Processing"
    /\ tasks' = [t \in DOMAIN tasks \cup {FreshId} |->
                    IF t = FreshId THEN NewTask ELSE tasks[t]]
    /\ latest' = FreshId
    /\ uiPc' = "draw"
    /\ UNCHANGED <<input, display, shared_state, stateLock,
                   sharedLock, key>>

\* the task's map without the terminated task t
Terminate(t) == [u \in DOMAIN tasks \ {t} |-> tasks[u]]

\* line 100: process(input, logit) resolves to Ok(r)
task_process_ok(t, r) ==
    /\ t \in DOMAIN tasks
    /\ tasks[t].pc = "await"
    /\ tasks' = [tasks EXCEPT ![t].pc = "ready", ![t].result = r]
    /\ UNCHANGED <<state, input, display, shared_state, 
                   stateLock, sharedLock, uiPc, key, latest>>

\* the unwrap moved below line 101: the panic unwinds through the write
\* guard on state, which is left poisoned for every later lock call
task_process_err_locked(t) ==
    /\ t \in DOMAIN tasks
    /\ tasks[t].pc = "await"
    /\ stateLock = Free
    /\ stateLock' = t
    /\ tasks' = Terminate(t)
    /\ UNCHANGED <<state, input, display, shared_state, 
                   sharedLock, uiPc, key, latest>>

\* line 100: process resolves to Err; unwrap panics and the runtime drops
\* the task, which holds no guard yet
task_process_err(t) ==
    /\ t \in DOMAIN tasks
    /\ tasks[t].pc = "await"
    /\ tasks' = Terminate(t)
    /\ UNCHANGED <<state, input, display, shared_state, 
                   stateLock, sharedLock, uiPc, key, latest>>

\* the check of line 102 under a guard that is dropped at once, the write
\* of line 106 under one taken later: the state lock is not held between
task_lock_state_released(t) ==
    /\ t \in DOMAIN tasks
    /\ tasks[t].pc = "ready"
    /\ stateLock = Free
    /\ tasks' = [tasks EXCEPT ![t].pc = "locked"]
    /\ UNCHANGED <<state, input, display, shared_state, 
                   stateLock, sharedLock, uiPc, key, latest>>

\* line 101: take the write guard on state
task_lock_state(t) ==
    /\ t \in DOMAIN tasks
    /\ tasks[t].pc = "ready"
    /\ stateLock = Free
    /\ stateLock' = t
    /\ tasks' = [tasks EXCEPT ![t].pc = "locked"]
    /\ UNCHANGED <<state, input, display, shared_state, 
                   sharedLock, uiPc, key, latest>>

\* line 102, state is not Processing: the result is dropped with the guard
task_discard(t) ==
    /\ t \in DOMAIN tasks
    /\ tasks[t].pc = "locked"
    /\ state # "Processing"
    /\ stateLock' = Free
    /\ tasks' = Terminate(t)
    /\ UNCHANGED <<state, input, display, shared_state, 
                   sharedLock, uiPc, key, latest>>

\* the completion without the test of line 102: any state goes on to commit
task_lock_shared_unguarded(t) ==
    /\ t \in DOMAIN tasks
    /\ tasks[t].pc = "locked"
    /\ sharedLock = Free
    /\ sharedLock' = t
    /\ tasks' = [tasks EXCEPT ![t].pc = "commit"]
    /\ UNCHANGED <<state, input, display, shared_state, 
                   stateLock, uiPc, key, latest>>

\* lines 102-103, state is Processing: take the write guard on shared_state
task_lock_shared(t) ==
    /\ t \in DOMAIN tasks
    /\ tasks[t].pc = "locked"
    /\ state = "Processing"
    /\ sharedLock = Free
    /\ sharedLock' = t
    /\ tasks' = [tasks EXCEPT ![t].pc = "commit"]
    /\ UNCHANGED <<state, input, display, shared_state, 
                   stateLock, uiPc, key, latest>>

\* the commit without the store of the explanation
task_commit_no_explanation(t) ==
    /\ t \in DOMAIN tasks
    /\ tasks[t].pc = "commit"
    /\ shared_state' = [shared_state EXCEPT !.score = tasks[t].result[1]]
    /\ state' = "Review"
    /\ stateLock' = Free
    /\ sharedLock' = Free
    /\ tasks' = Terminate(t)
    /\ UNCHANGED <<input, display, uiPc, key, latest>>

\* the commit without the write of State::Review
task_commit_no_review(t) ==
    /\ t \in DOMAIN tasks
    /\ tasks[t].pc = "commit"
    /\ shared_state' = [score |-> tasks[t].result[1],
                        explanation |-> tasks[t].result[2]]
    /\ stateLock' = Free
    /\ sharedLock' = Free
    /\ tasks' = Terminate(t)
    /\ UNCHANGED <<state, input, display, uiPc, key, latest>>

\* lines 104-107: store score and explanation, write Review, drop both guards
task_commit(t) ==
    /\ t \in DOMAIN tasks
    /\ tasks[t].pc = "commit"
    /\ shared_state' = [score |-> tasks[t].result[1],
                        explanation |-> tasks[t].result[2]]
    /\ state' = "Review"
    /\ stateLock' = Free
    /\ sharedLock' = Free
    /\ tasks' = Terminate(t)
    /\ UNCHANGED <<input, display, uiPc, key, latest>>

Next ==
    \/ ui_read_state
    \/ ui_read_shared
    \/ poll_timeout
    \/ \E k \in Keys : poll_key(k)
    \/ \E c \in Chars : on_key(c)
    \/ on_backspace
    \/ on_delete
    \/ on_next_start
    \/ on_next_lock_shared
    \/ on_next_clear
    \/ on_next_write_state
    \/ on_retry_start
    \/ on_retry_lock_shared
    \/ on_retry_clear
    \/ on_retry_write_state
    \/ on_review_check
    \/ on_review_spawn
    \/ \E t \in TaskIds, r \in Results : task_process_ok(t, r)
    \/ \E t \in TaskIds : task_process_err(t)
    \/ \E t \in TaskIds : task_lock_state(t)
    \/ \E t \in TaskIds : task_discard(t)
    \/ \E t \in TaskIds : task_lock_shared(t)
    \/ \E t \in TaskIds : task_commit(t)

Spec == Init /\ [][Next]_vars

\* The runtime's two workers run every spawned task whose process() has
\* resolved, and a blocked write() returns once the lock is free: the
\* steps of a completion after line 100 are weakly fair.  Nothing is
\* assumed of the backend or of the user.
TaskFairness ==
    \A t \in TaskIds :
        /\ WF_vars(task_lock_state(t))
        /\ WF_vars(task_discard(t))
        /\ WF_vars(task_lock_shared(t))
        /\ WF_vars(task_commit(t))

FairSpec == Spec /\ TaskFairness

\* a step of the UI thread other than waiting for the user: App::ui and
\* the match arms
UiStep ==
    \/ ui_read_state
    \/ ui_read_shared
    \/ \E c \in Chars : on_key(c)
    \/ on_backspace
    \/ on_delete
    \/ on_next_start
    \/ on_next_lock_shared
    \/ on_next_clear
    \/ on_next_write_state
    \/ on_retry_start
    \/ on_retry_lock_shared
    \/ on_retry_clear
    \/ on_retry_write_state
    \/ on_review_check
    \/ on_review_spawn

\* the UI thread is an OS thread of its own: it runs whenever it is not
\* blocked on a lock
UiFairSpec == FairSpec /\ WF_vars(UiStep)

\* ---- steps, as seen on a pair of states --------------------------------
\* the UI thread leaves the dispatch point with key code k bound
Handled(k) == uiPc = "handle" /\ key.code = k /\ uiPc' # "handle"

\* task t runs its last step (commit, discard or panic)
Ends(t) == t \in DOMAIN tasks /\ t \notin DOMAIN tasks'

\* task t stores its result and writes Review
Commits(t) == Ends(t) /\ tasks[t].pc = "commit"

\* ---- C1 ----------------------------------------------------------------
\* C1: a task that on_next or on_retry has superseded leaves state and
\* shared_state as they are when it completes.
C1_GuardedCommit ==
    [][\A t \in TaskIds :
         (Ends(t) /\ tasks[t].stale) => UNCHANGED <<state, shared_state>>]_vars

\* ---- C2 ----------------------------------------------------------------
\* C2: a task that commits its result is the most recently spawned one.
C2_OnlyLatestCommits ==
    [][\A t \in TaskIds : Commits(t) => t = latest]_vars

\* ---- C3 ----------------------------------------------------------------
\* C3: Delete in a state other than Input leaves the input buffer unchanged.
C3_DeleteClosed ==
    [][(Handled("Delete") /\ ~is_input(state)) => input' = input]_vars

\* ---- C4 ----------------------------------------------------------------
\* C4: a character or Backspace handled in Processing or Review changes
\* neither input, state, display nor shared_state, and the handler returns
\* to the loop.
C4_InputClosed ==
    [][((Handled("Char") \/ Handled("Backspace")) /\ ~is_input(state))
         => (UNCHANGED <<input, state, display, shared_state>>
             /\ uiPc' = "draw")]_vars

\* a character was handled in Processing with text in the buffer
C4_Witness ==
    /\ uiPc = "draw"
    /\ key.code = "Char"
    /\ state = "Processing"
    /\ input = <<"a">>

\* ---- C5 ----------------------------------------------------------------
\* C5: a task is spawned only from Input, one at a time, with the write of
\* Processing; Enter handled in another state spawns nothing and changes
\* nothing.
C5_SingleLiveTask ==
    [][/\ (DOMAIN tasks' \ DOMAIN tasks # {})
            => /\ is_input(state)
               /\ state' = "Processing"
               /\ Cardinality(DOMAIN tasks' \ DOMAIN tasks) = 1
       /\ (Handled("Enter") /\ ~is_input(state))
            => /\ UNCHANGED <<state, input, display, shared_state, tasks,
                              latest>>
               /\ uiPc' = "draw"]_vars

\* a second Enter is dispatched while the task of the first is in flight
C5_Witness ==
    /\ uiPc = "handle"
    /\ key.code = "Enter"
    /\ state = "Processing"
    /\ latest \in DOMAIN tasks
    /\ ~tasks[latest].stale

\* ---- C6 ----------------------------------------------------------------
\* C6, as claimed: at most one spawned task has not yet terminated.
C6_AtMostOneInFlight == Cardinality(DOMAIN tasks) <= 1

\* tasks in flight that no on_next or on_retry has superseded
LiveTasks == {t \in DOMAIN tasks : ~tasks[t].stale}

\* C6, amended: at most one task spawned since the last on_next or on_retry
\* returned is in flight; superseded tasks stay in flight beside it.
C6_AtMostOneLive == Cardinality(LiveTasks) <= 1

\* a superseded task and the task of the current submission, both in flight
C6_Witness ==
    /\ Cardinality(DOMAIN tasks) = 2
    /\ Cardinality(LiveTasks) = 1
    /\ state = "Processing"

\* ---- C7 ----------------------------------------------------------------
\* C7: when process fails for the task of the current submission while the
\* state is Processing, the task's failure path moves the state out of
\* Processing.
C7_FailureResolves ==
    [][\A t \in TaskIds :
         (Ends(t) /\ tasks[t].pc = "await" /\ ~tasks[t].stale
                  /\ state = "Processing")
            => state' # "Processing"]_vars

\* ---- C8 ----------------------------------------------------------------
\* C8: a task that no reset has superseded and that holds the state guard
\* with the state still Processing goes on to commit, and its commit writes
\* Review and stores exactly the score and explanation process returned.
C8_HappyPath ==
    [][\A t \in TaskIds :
         /\ (/\ t \in DOMAIN tasks
             /\ tasks[t].pc = "locked"
             /\ ~tasks[t].stale
             /\ state = "Processing"
             /\ (t \notin DOMAIN tasks' \/ tasks'[t] # tasks[t]))
               => (t \in DOMAIN tasks' /\ tasks'[t].pc = "commit"
                   /\ tasks'[t].result = tasks[t].result
                   /\ state' = "Processing")
         /\ (Commits(t) /\ ~tasks[t].stale)
               => /\ state' = "Review"
                  /\ shared_state' = [score |-> tasks[t].result[1],
                                      explanation |-> tasks[t].result[2]]]_vars

\* the only task ever spawned has committed a result for the typed text
C8_Witness ==
    /\ state = "Review"
    /\ shared_state = [score |-> 80, explanation |-> "x"]
    /\ key.code = "Enter"
    /\ input = <<"a", "a">>
    /\ DOMAIN tasks = {}

\* ---- C9 ----------------------------------------------------------------
\* C9: when on_next or on_retry returns, the state is Input, the input
\* buffer is empty and score and explanation are cleared.
C9_ResetPostcondition ==
    [][(uiPc \in {"next_write_state", "retry_write_state"} /\ uiPc' = "draw")
         => /\ state' = "Input"
            /\ input' = <<>>
            /\ shared_state' = SlowStateDefault]_vars

\* ---- C10 ---------------------------------------------------------------
\* C10: display changes only in the step of on_next that draws a new word.
C10_PromptConstant ==
    [][display' # display => Handled("Tab")]_vars

\* on_retry has returned after a submission and the word is still there
C10_Witness ==
    /\ uiPc = "draw"
    /\ key.code = "CtrlR"
    /\ state = "Input"
    /\ display = "banana"
    /\ \E t \in DOMAIN tasks : tasks[t].stale

\* ---- C11 ---------------------------------------------------------------
\* C11: whenever the state is Input or Processing, the stored score is 0.0
\* and the stored explanation is empty.
C11_PhaseData == state # "Review" => shared_state = SlowStateDefault

\* ---- C12 ---------------------------------------------------------------
\* task t, holding the state guard, takes a step
Moves(t) == t \in DOMAIN tasks /\ (t \notin DOMAIN tasks' \/ tasks'[t] # tasks[t])

\* C12: a completion that finds a state other than Processing ends there,
\* leaving state, display, input and shared_state unchanged.
C12_StaleDiscard ==
    [][\A t \in TaskIds :
         (Moves(t) /\ tasks[t].pc = "locked" /\ state # "Processing")
            => /\ Ends(t)
               /\ UNCHANGED <<state, display, input, shared_state>>]_vars

\* a completion holds the state guard and finds Input, with text typed
C12_Witness ==
    /\ state = "Input"
    /\ input # <<>>
    /\ \E t \in DOMAIN tasks : tasks[t].pc = "locked" /\ stateLock = t

\* ---- C13 ---------------------------------------------------------------
\* C13: a completion holds the state guard from its check to its write, the
\* state is Processing all the while it is about to commit, and no step
\* takes the state from Input to Review.
C13_AtomicCheckWrite ==
    [][/\ \A t \in DOMAIN tasks :
            /\ tasks[t].pc \in {"locked", "commit"} => stateLock = t
            /\ tasks[t].pc = "commit" => state = "Processing"
       /\ state = "Input" => state' # "Review"
       /\ \A t \in TaskIds : Commits(t) => state = "Processing"]_vars

\* a reset waits to write Input while a completion is between check and write
C13_Witness ==
    /\ uiPc \in {"next_write_state", "retry_write_state"}
    /\ \E t \in DOMAIN tasks : tasks[t].pc = "commit" /\ stateLock = t

\* ---- C14 ---------------------------------------------------------------
\* the task of the current submission has its result and the state is
\* still Processing
ResolvedLive ==
    state = "Processing" /\ \E t \in LiveTasks : tasks[t].pc # "await"

\* the user has pressed Tab or Ctrl-R and the handler is running
ResetIssued ==
    \/ uiPc = "handle" /\ key.code \in {"Tab", "CtrlR"}
    \/ uiPc \in {"next_lock_shared", "next_clear", "next_write_state",
                 "retry_lock_shared", "retry_clear", "retry_write_state"}

\* C14: once process() has returned Ok for the task of the current
\* submission, the state becomes Review unless Tab or Ctrl-R is pressed.
C14_ScoringLive == ResolvedLive ~> (state = "Review" \/ ResetIssued)

\* the result is there, the state is Processing, the loop is polling
C14_Witness == ResolvedLive /\ uiPc = "poll"

\* ---- C15 ---------------------------------------------------------------
\* a task awaiting the backend, or not yet past line 101, holds no lock;
\* the UI thread never holds the state lock across steps, and holds the
\* shared_state lock only where it does not wait for the other one
LockDiscipline ==
    /\ \A t \in DOMAIN tasks :
          tasks[t].pc \in {"await", "ready"}
             => (stateLock # t /\ sharedLock # t)
    /\ stateLock # UI
    /\ sharedLock = UI => uiPc \in {"next_clear", "retry_clear"}

\* C15: the lock discipline holds in every state, and the UI thread,
\* wherever it is in App::ui or in a handler, gets back to polling.
C15_UiNeverBlocks == []LockDiscipline /\ ((uiPc # "poll") ~> (uiPc = "poll"))

\* on_next holds the shared_state guard while a completion, holding the
\* state guard, waits for it
C15_Witness ==
    /\ uiPc = "next_clear"
    /\ sharedLock = UI
    /\ Cardinality(DOMAIN tasks) = 2
    /\ \E t \in DOMAIN tasks :
          tasks[t].pc = "locked" /\ stateLock = t /\ state = "Processing"

\* ---- C16 ---------------------------------------------------------------
\* C16: every commit takes the state from Processing to Review, and the
\* state becomes Processing only in the step of on_review that spawns a
\* task; so no second commit falls between two submissions.
C16_OneCommitPerPeriod ==
    [][/\ \A t \in TaskIds :
            Commits(t) => (state = "Processing" /\ state' = "Review")
       /\ (state # "Processing" /\ state' = "Processing")
            => (uiPc = "review_write" /\ uiPc' = "draw"
                /\ DOMAIN tasks' \ DOMAIN tasks # {})]_vars

\* a commit has been made for the current submission while the task of an
\* earlier one, still in flight, holds the state guard
C16_Witness ==
    /\ state = "Review"
    /\ shared_state # SlowStateDefault
    /\ \E t \in DOMAIN tasks : tasks[t].pc = "locked" /\ stateLock = t

\* ---- C17 ---------------------------------------------------------------
\* C17: the step in which process() fails changes neither state, display,
\* input nor shared_state, and the task that ends there holds no lock
\* before or after it.
C17_FailureHarmless ==
    [][\A t \in TaskIds :
         (Ends(t) /\ tasks[t].pc = "await")
            => /\ UNCHANGED <<state, display, input, shared_state>>
               /\ stateLock # t /\ sharedLock # t
               /\ stateLock' # t /\ sharedLock' # t]_vars

\* the only task in flight has failed: Processing with nothing to complete
C17_Witness ==
    /\ state = "Processing"
    /\ DOMAIN tasks = {}
    /\ latest # 0
    /\ stateLock = Free
    /\ sharedLock = Free

====
